---------------------------- MODULE Spec2Model ----------------------------
(***************************************************************************)
(* Model of FeetechSTSTestUART.ino: a line-oriented text controller that   *)
(* turns host commands into calls of the SMS_STS bus driver.               *)
(*                                                                         *)
(* A String is a sequence of one-character strings.  The host puts one raw *)
(* line on the serial link, loop() trims it and processCommand() runs the  *)
(* matching handler to completion.  Every driver call is appended to       *)
(* `calls` together with the value the driver returned, every printed line *)
(* to `out`.                                                               *)
(***************************************************************************)
EXTENDS Integers, Sequences, FiniteSets, TLC

VARIABLES
    pc,      \* "idle" | "received" | "dispatch" | "done": where loop() is;
             \* "looping": in a handler that never returns; "clamp": bench
    line,    \* the raw line in the host serial buffer (String)
    req,     \* what the host meant to send: [cmd, words, style]
    oracle,  \* behaviour of the bus driver stub for this line
    cmdName, \* processCommand(): the upper-cased command name
    cmdArgs, \* processCommand(): the trimmed argument tail
    calls,   \* driver calls made for this line, in order
    out,     \* response lines printed for this line, in order
    prev,    \* <<>>, or what the same line did when the host first sent it
    cl       \* the clamp bench: an integer and its successive clamped values

vars == <<pc, line, req, oracle, cmdName, cmdArgs, calls, out, prev, cl>>

---------------------------------------------------------------------------
(* Bounds of the model (not program constants).                            *)

MaxAt == 14

\* the latest driver call of a scan at which a stub may deviate
MaxScanAt == 4

\* how many driver calls of a scan that never ends are kept in `calls`
MaxShown == 6

\* the clamp bench tries the integers -ClampSpan .. ClampSpan
ClampSpan == 4200

---------------------------------------------------------------------------
(* Arduino String primitives used by the sketch.                           *)

SP == " "

Digits == <<"0", "1", "2", "3", "4", "5", "6", "7", "8", "9">>

LowerAlpha == <<"a","b","c","d","e","f","g","h","i","j","k","l","m",
                "n","o","p","q","r","s","t","u","v","w","x","y","z">>

UpperAlpha == <<"A","B","C","D","E","F","G","H","I","J","K","L","M",
                "N","O","P","Q","R","S","T","U","V","W","X","Y","Z">>

IsDigit(c) == \E i \in 1..10 : Digits[i] = c

DigitVal(c) == (CHOOSE i \in 1..10 : Digits[i] = c) - 1

\* s.length()
length(s) == Len(s)

\* s.indexOf(c, from): 0-based index of the first c at or after from, else -1
RECURSIVE indexOf(_, _, _)
indexOf(s, c, from) ==
    IF from >= Len(s) THEN -1
    ELSE IF from >= 0 /\ s[from + 1] = c THEN from
    ELSE indexOf(s, c, from + 1)

\* s.substring(left, right): characters [left, right), bounds as WString.cpp
substring(s, left, right) ==
    LET l0 == IF left > right THEN right ELSE left
        r0 == IF left > right THEN left ELSE right
        r1 == IF r0 > Len(s) THEN Len(s) ELSE r0
    IN  IF l0 >= Len(s) THEN <<>> ELSE SubSeq(s, l0 + 1, r1)

\* s.substring(left)
substringFrom(s, left) == substring(s, left, Len(s))

\* index (1-based) of the first non-blank at or after i, Len(s) + 1 if none
RECURSIVE skipBlanks(_, _)
skipBlanks(s, i) ==
    IF i > Len(s) \/ s[i] # SP THEN i ELSE skipBlanks(s, i + 1)

\* index (1-based) of the last non-blank at or before i, 0 if none
RECURSIVE skipBlanksBack(_, _)
skipBlanksBack(s, i) ==
    IF i < 1 \/ s[i] # SP THEN i ELSE skipBlanksBack(s, i - 1)

\* s.trim(): drop leading and trailing blanks
trim(s) == SubSeq(s, skipBlanks(s, 1), skipBlanksBack(s, Len(s)))

\* one character of toUpperCase()
upperChar(c) ==
    IF \E i \in 1..26 : LowerAlpha[i] = c
    THEN UpperAlpha[CHOOSE i \in 1..26 : LowerAlpha[i] = c]
    ELSE c

\* toUpperCase leaving the text as it is
toUpperCase_Asis(s) == s

\* s.toUpperCase()
RECURSIVE toUpperCase(_)
toUpperCase(s) ==
    IF s = <<>> THEN <<>> ELSE <<upperChar(Head(s))>> \o toUpperCase(Tail(s))

\* value of the longest run of digits starting at position i, given acc so far
RECURSIVE digitsFrom(_, _, _)
digitsFrom(s, i, acc) ==
    IF i > Len(s) \/ ~IsDigit(s[i]) THEN acc
    ELSE digitsFrom(s, i + 1, 10 * acc + DigitVal(s[i]))

\* toInt() giving 0 unless the whole text is a number
toInt_Strict(s) ==
    LET a     == skipBlanks(s, 1)
        b     == IF a <= Len(s) /\ s[a] \in {"-", "+"} THEN a + 1 ELSE a
        whole == b <= Len(s) /\ \A i \in b..Len(s) : IsDigit(s[i])
    IN  IF ~whole THEN 0
        ELSE IF s[a] = "-" THEN 0 - digitsFrom(s, b, 0)
        ELSE digitsFrom(s, b, 0)

\* s.toInt(): atol() - skip blanks, optional sign, digits; 0 when no digits
toInt(s) ==
    LET a == skipBlanks(s, 1)
    IN  IF a > Len(s) THEN 0
        ELSE IF s[a] = "-" THEN 0 - digitsFrom(s, a + 1, 0)
        ELSE IF s[a] = "+" THEN digitsFrom(s, a + 1, 0)
        ELSE digitsFrom(s, a, 0)

\* C casts applied to driver arguments
U8(x)  == x % 256
U16(x) == x % 65536
I16(x) == ((x + 32768) % 65536) - 32768

---------------------------------------------------------------------------
(* Program constants.                                                      *)

SPEED_MIN == -4095
SPEED_MAX == 4095
SERVO_IDS == <<100, 101, 102, 103, 104, 105, 106>>
SERVO_COUNT == Len(SERVO_IDS)

\* the failure sentinel the handlers compare driver results with
FAIL == -1

\* the largest value of the 32-bit int the handlers compute with
INT_MAX == 2147483647

---------------------------------------------------------------------------
(* The bus driver stub and the response emitter.                           *)

\* values a driver call can return: the sentinel, a negative value that is
\* not the sentinel, zero, a positive value
RetVals == {-2, -1, 0, 1}

\* a stub answers dflt to every call except the at-th one, which gets val
Oracles ==
    { [dflt |-> d, at |-> 0, val |-> d] : d \in RetVals }
    \cup { o \in [dflt : RetVals, at : 1..MaxAt, val : RetVals] : o.val # o.dflt }

\* the value the stub returns to the k-th driver call of a command
Reply(o, k) == IF k = o.at THEN o.val ELSE o.dflt

\* the k-th driver call: st.<op>(id, a...) and what it returned
Call(op, id, a, o, k) == [op |-> op, id |-> id, a |-> a, ret |-> Reply(o, k)]

\* Serial.println(text)
L(t) == [t |-> t, n |-> <<>>]

\* Serial.print(text); Serial.println(number) ...
LN(t, n) == [t |-> t, n |-> n]

\* what a handler did: its driver calls and its printed lines
Res(c, l) == [calls |-> c, out |-> l, hang |-> FALSE]

\* a handler whose loop never exits: what it did to begin with
Hang(c, l) == [calls |-> c, out |-> l, hang |-> TRUE]

---------------------------------------------------------------------------
(* Handlers: what each does with its argument tail under a driver stub.    *)

\* handlePing
PingRun(args, o) ==
    LET id == toInt(args)
    IN  IF id < 0 \/ id > 253 THEN Res(<<>>, <<L("ERROR: Invalid ID")>>)
        ELSE LET c == Call("Ping", id, <<>>, o, 1)
             IN  Res(<<c>>, <<L(IF c.ret # FAIL THEN "OK" ELSE "ERROR: Ping fail")>>)

\* the scan window with the swap of inverted bounds left out
ScanWindow_NoSwap(args) ==
    LET sp    == indexOf(args, SP, 0)
        from0 == IF length(args) = 0 THEN 0
                 ELSE IF sp < 0 THEN toInt(args)
                 ELSE toInt(substring(args, 0, sp))
        to0   == IF length(args) = 0 \/ sp < 0 THEN 253
                 ELSE toInt(substringFrom(args, sp + 1))
    IN  [from |-> IF from0 < 0 THEN 0 ELSE from0,
         to   |-> IF to0 > 253 THEN 253 ELSE to0]

\* the [from, to] window of SCAN_ID and SCAN_POS: defaults, parse, clamp, swap
ScanWindow(args) ==
    LET sp    == indexOf(args, SP, 0)
        from0 == IF length(args) = 0 THEN 0
                 ELSE IF sp < 0 THEN toInt(args)
                 ELSE toInt(substring(args, 0, sp))
        to0   == IF length(args) = 0 \/ sp < 0 THEN 253
                 ELSE toInt(substringFrom(args, sp + 1))
        from1 == IF from0 < 0 THEN 0 ELSE from0
        to1   == IF to0 > 253 THEN 253 ELSE to0
    IN  IF to1 < from1 THEN [from |-> to1, to |-> from1]
        ELSE [from |-> from1, to |-> to1]

\* handleScanID
\* `id <= to` holds of every int id when to is INT_MAX: the loop never exits
ScanIDRun(args, o) ==
    LET w     == ScanWindow(args)
        n     == IF w.to = INT_MAX THEN MaxShown ELSE w.to - w.from + 1
        cs    == [ k \in 1..n |-> Call("Ping", w.from + k - 1, <<>>, o, k) ]
        hit(c) == c.ret # FAIL
        found == SelectSeq(cs, hit)
        head  == <<LN("SCAN_ID from to", <<w.from, w.to>>)>>
                 \o [ j \in 1..Len(found) |-> LN("FOUND ID", <<found[j].ret>>) ]
    IN  IF w.to = INT_MAX
        THEN Hang(cs, head)
        ELSE Res(cs, head \o <<LN("FOUND_TOTAL", <<Len(found)>>)>>)

\* handleSetID
SetIDRun(args, o) ==
    LET spaceIdx == indexOf(args, SP, 0)
    IN  IF spaceIdx < 0
        THEN Res(<<>>, <<L("ERROR: SET_ID usage: SET_ID <oldId> <newId>")>>)
        ELSE
        LET oldId == toInt(substring(args, 0, spaceIdx))
            newId == toInt(substringFrom(args, spaceIdx + 1))
        IN  IF oldId < 0 \/ oldId > 253 \/ newId < 0 \/ newId > 253
            THEN Res(<<>>, <<L("ERROR: Invalid ID range")>>)
            ELSE
            LET c1 == Call("unLockEprom", U8(oldId), <<>>, o, 1)
                c2 == Call("writeByte:SMS_STS_ID", U8(oldId), <<U8(newId)>>, o, 2)
                c3 == Call("LockEprom", U8(newId), <<>>, o, 3)
                writeOk == (c2.ret # 0)
            IN  Res(<<c1, c2, c3>>,
                    <<L(IF writeOk THEN "OK" ELSE "ERROR: write ID fail")>>)

\* handleSetServo enabling torque before it writes the mode
SetServoRun_TorqueFirst(args, o) ==
    LET id == toInt(args)
    IN  IF id < 0 \/ id > 253 THEN Res(<<>>, <<L("ERROR: invalid ID")>>)
        ELSE LET c1 == Call("EnableTorque", U8(id), <<1>>, o, 1)
                 c2 == Call("writeByte:SMS_STS_MODE", U8(id), <<0>>, o, 2)
             IN  Res(<<c1, c2>>, <<L(IF c2.ret # FAIL THEN "OK" ELSE "ERROR")>>)

\* handleSetServo
SetServoRun(args, o) ==
    LET id == toInt(args)
    IN  IF id < 0 \/ id > 253 THEN Res(<<>>, <<L("ERROR: invalid ID")>>)
        ELSE LET c1 == Call("writeByte:SMS_STS_MODE", U8(id), <<0>>, o, 1)
             IN  IF c1.ret # FAIL
                 THEN Res(<<c1, Call("EnableTorque", U8(id), <<1>>, o, 2)>>,
                          <<L("OK")>>)
                 ELSE Res(<<c1>>, <<L("ERROR")>>)

\* handleSetWheel answering nothing when the driver fails
SetWheelRun_SilentFail(args, o) ==
    LET id == toInt(args)
    IN  IF id < 0 \/ id > 253 THEN Res(<<>>, <<L("ERROR: invalid ID")>>)
        ELSE LET c == Call("WheelMode", U8(id), <<>>, o, 1)
             IN  Res(<<c>>, IF c.ret # FAIL THEN <<L("OK")>> ELSE <<>>)

\* handleSetWheel
SetWheelRun(args, o) ==
    LET id == toInt(args)
    IN  IF id < 0 \/ id > 253 THEN Res(<<>>, <<L("ERROR: invalid ID")>>)
        ELSE LET c == Call("WheelMode", U8(id), <<>>, o, 1)
             IN  Res(<<c>>, <<L(IF c.ret # FAIL THEN "OK" ELSE "ERROR")>>)

\* handleReadMode
ReadModeRun(args, o) ==
    LET id == toInt(args)
    IN  IF id < 0 \/ id > 253 THEN Res(<<>>, <<L("ERROR: invalid ID")>>)
        ELSE LET c == Call("ReadMode", U8(id), <<>>, o, 1)
             IN  Res(<<c>>, <<IF c.ret # FAIL THEN LN("MODE", <<c.ret>>)
                              ELSE L("ERROR")>>)

\* clampAcc with the bound of the speed clamp pasted in
clampAcc_SpeedBound(acc) == IF acc < 0 THEN 0 ELSE IF acc > 4095 THEN 4095 ELSE acc

\* clampPos mirroring a negative position instead of raising it to 0
clampPos_Mirror(pos) == IF pos > 4095 THEN 4095 ELSE IF pos < 0 THEN 0 - pos ELSE pos

\* the clamps of MOVE and SYNC_MOVE
clampPos(pos)     == IF pos < 0 THEN 0 ELSE IF pos > 4095 THEN 4095 ELSE pos
clampSpeed(speed) == IF speed < 0 THEN 0 ELSE IF speed > 4095 THEN 4095 ELSE speed

clampAcc(acc) == IF acc < 0 THEN 0 ELSE IF acc > 255 THEN 255 ELSE acc

\* the clamp of SPEED and SYNC_SPEED
clampWheel(speed) ==
    IF speed < SPEED_MIN THEN SPEED_MIN
    ELSE IF speed > SPEED_MAX THEN SPEED_MAX ELSE speed

\* handleMove
MoveRun(args, o) ==
    LET sp1 == indexOf(args, SP, 0)
        sp2 == indexOf(args, SP, sp1 + 1)
        sp3 == indexOf(args, SP, sp2 + 1)
    IN  IF sp1 < 0 \/ sp2 < 0 \/ sp3 < 0
        THEN Res(<<>>, <<L("ERROR: MOVE usage: MOVE <id> <pos> <speed> <acc>")>>)
        ELSE
        LET id    == toInt(substring(args, 0, sp1))
            pos   == toInt(substring(args, sp1 + 1, sp2))
            speed == toInt(substring(args, sp2 + 1, sp3))
            acc   == toInt(substringFrom(args, sp3 + 1))
        IN  IF id < 0 \/ id > 253 THEN Res(<<>>, <<L("ERROR: invalid ID")>>)
            ELSE Res(<<Call("WritePosEx", U8(id),
                            <<I16(clampPos(pos)), U16(clampSpeed(speed)),
                              U8(clampAcc(acc))>>, o, 1)>>,
                     <<L("OK")>>)

\* the parse loop of handleSyncMove with `remain` never advanced
RECURSIVE syncMoveLoop_SameTuple(_, _, _, _)
syncMoveLoop_SameTuple(i, n, remain, batch) ==
    IF i >= n THEN [ok |-> TRUE, batch |-> batch]
    ELSE
    LET spA == indexOf(remain, SP, 0)
        spB == indexOf(remain, SP, spA + 1)
        spC == indexOf(remain, SP, spB + 1)
    IN  IF spA < 0 \/ spB < 0 \/ spC < 0 THEN [ok |-> FALSE, batch |-> batch]
        ELSE
        LET spNext == indexOf(remain, SP, spC + 1)
            accStr == IF spNext >= 0 THEN substring(remain, spC + 1, spNext)
                      ELSE substringFrom(remain, spC + 1)
            entry  == [id  |-> U8(toInt(substring(remain, 0, spA))),
                       pos |-> I16(clampPos(toInt(substring(remain, spA + 1, spB)))),
                       spd |-> U16(clampSpeed(toInt(substring(remain, spB + 1, spC)))),
                       acc |-> U8(clampAcc(toInt(accStr)))]
        IN  syncMoveLoop_SameTuple(i + 1, n, remain, Append(batch, entry))

\* the parse loop of handleSyncMove from tuple i on: the batch arrays filled
\* so far, or failure when a tuple lacks a delimiter
RECURSIVE syncMoveLoop(_, _, _, _)
syncMoveLoop(i, n, remain, batch) ==
    IF i >= n THEN [ok |-> TRUE, batch |-> batch]
    ELSE
    LET spA == indexOf(remain, SP, 0)
        spB == indexOf(remain, SP, spA + 1)
        spC == indexOf(remain, SP, spB + 1)
    IN  IF spA < 0 \/ spB < 0 \/ spC < 0 THEN [ok |-> FALSE, batch |-> batch]
        ELSE
        LET idStr  == substring(remain, 0, spA)
            posStr == substring(remain, spA + 1, spB)
            spdStr == substring(remain, spB + 1, spC)
            spNext == indexOf(remain, SP, spC + 1)
            accStr == IF spNext >= 0 THEN substring(remain, spC + 1, spNext)
                      ELSE substringFrom(remain, spC + 1)
            rest   == IF spNext >= 0 THEN trim(substringFrom(remain, spNext + 1))
                      ELSE <<>>
            entry  == [id  |-> U8(toInt(idStr)),
                       pos |-> I16(clampPos(toInt(posStr))),
                       spd |-> U16(clampSpeed(toInt(spdStr))),
                       acc |-> U8(clampAcc(toInt(accStr)))]
        IN  syncMoveLoop(i + 1, n, rest, Append(batch, entry))

\* handleSyncMove with the lower bound of n off by one
SyncMoveRun_AllowZero(args, o) ==
    LET sp1 == indexOf(args, SP, 0)
    IN  IF sp1 < 0 THEN Res(<<>>, <<L("ERROR: SYNC_MOVE usage")>>)
        ELSE
        LET n == toInt(substring(args, 0, sp1))
        IN  IF n < 0 \/ n > 12 THEN Res(<<>>, <<L("ERROR: n out of range")>>)
            ELSE
            LET p == syncMoveLoop(0, n, trim(substringFrom(args, sp1 + 1)), <<>>)
            IN  IF ~p.ok
                THEN Res(<<>>, <<L("ERROR: not enough arguments for SYNC_MOVE")>>)
                ELSE Res(<<[op |-> "SyncWritePosEx", n |-> n, batch |-> p.batch,
                            ret |-> Reply(o, 1)]>>,
                         <<L("OK")>>)

\* handleSyncMove
SyncMoveRun(args, o) ==
    LET sp1 == indexOf(args, SP, 0)
    IN  IF sp1 < 0 THEN Res(<<>>, <<L("ERROR: SYNC_MOVE usage")>>)
        ELSE
        LET n == toInt(substring(args, 0, sp1))
        IN  IF n < 1 \/ n > 12 THEN Res(<<>>, <<L("ERROR: n out of range")>>)
            ELSE
            LET p == syncMoveLoop(0, n, trim(substringFrom(args, sp1 + 1)), <<>>)
            IN  IF ~p.ok
                THEN Res(<<>>, <<L("ERROR: not enough arguments for SYNC_MOVE")>>)
                ELSE Res(<<[op |-> "SyncWritePosEx", n |-> n, batch |-> p.batch,
                            ret |-> Reply(o, 1)]>>,
                         <<L("OK")>>)

\* handleReadPos
ReadPosRun(args, o) ==
    LET id == toInt(args)
    IN  IF id < 0 \/ id > 253 THEN Res(<<>>, <<L("ERROR: invalid ID")>>)
        ELSE LET c == Call("ReadPos", id, <<>>, o, 1)
             IN  Res(<<c>>, <<IF c.ret # FAIL THEN LN("POS", <<c.ret>>)
                              ELSE L("ERROR: read pos fail")>>)

\* handleScanPos
ScanPosRun(args, o) ==
    LET w     == ScanWindow(args)
        n     == IF w.to = INT_MAX THEN MaxShown ELSE w.to - w.from + 1
        cs    == [ k \in 1..n |-> Call("ReadPos", w.from + k - 1, <<>>, o, k) ]
        hit(c) == c.ret >= 0
        found == SelectSeq(cs, hit)
        head  == [ j \in 1..Len(found) |->
                     LN("ID POS", <<found[j].id, found[j].ret>>) ]
    IN  IF w.to = INT_MAX
        THEN Hang(cs, head)
        ELSE Res(cs, head \o <<L("DONE")>>)

\* handleSpeed
SpeedRun(args, o) ==
    LET sp == indexOf(args, SP, 0)
    IN  IF sp < 0 THEN Res(<<>>, <<L("ERROR: SPEED usage: SPEED <id> <speed>")>>)
        ELSE
        LET id    == toInt(substring(args, 0, sp))
            speed == toInt(substringFrom(args, sp + 1))
        IN  IF id < 0 \/ id > 253 THEN Res(<<>>, <<L("ERROR: invalid ID")>>)
            ELSE
            LET c1 == Call("EnableTorque", U8(id), <<1>>, o, 1)
                c2 == Call("WriteSpe", U8(id), <<I16(clampWheel(speed))>>, o, 2)
            IN  Res(<<c1, c2>>, <<L(IF c2.ret # FAIL THEN "OK" ELSE "ERROR")>>)

\* the loop of handleSyncSpeed going on after a failed speed write
RECURSIVE syncSpeedLoop_NoAbort(_, _, _, _, _)
syncSpeedLoop_NoAbort(i, n, remain, cs, o) ==
    IF i >= n THEN Res(cs, <<L("OK")>>)
    ELSE
    LET spA == indexOf(remain, SP, 0)
    IN  IF spA < 0 THEN Res(cs, <<L("ERROR: not enough args")>>)
        ELSE
        LET idStr    == substring(remain, 0, spA)
            rem1     == trim(substringFrom(remain, spA + 1))
            spB      == indexOf(rem1, SP, 0)
            split    == spB >= 0 /\ i < n - 1
            speedStr == IF split THEN substring(rem1, 0, spB) ELSE rem1
            rem2     == IF split THEN trim(substringFrom(rem1, spB + 1)) ELSE <<>>
            id       == toInt(idStr)
            speed    == toInt(speedStr)
        IN  IF id < 0 \/ id > 253 THEN Res(cs, <<L("ERROR: invalid ID")>>)
            ELSE
            LET c1 == Call("EnableTorque", U8(id), <<1>>, o, Len(cs) + 1)
                c2 == Call("WriteSpe", U8(id), <<I16(clampWheel(speed))>>, o,
                           Len(cs) + 2)
            IN  syncSpeedLoop_NoAbort(i + 1, n, rem2, cs \o <<c1, c2>>, o)

\* the loop of handleSyncSpeed from tuple i on, given the driver calls made
\* so far: parse one tuple, validate, enable torque, write speed
RECURSIVE syncSpeedLoop(_, _, _, _, _)
syncSpeedLoop(i, n, remain, cs, o) ==
    IF i >= n THEN Res(cs, <<L("OK")>>)
    ELSE
    LET spA == indexOf(remain, SP, 0)
    IN  IF spA < 0 THEN Res(cs, <<L("ERROR: not enough args")>>)
        ELSE
        LET idStr    == substring(remain, 0, spA)
            rem1     == trim(substringFrom(remain, spA + 1))
            spB      == indexOf(rem1, SP, 0)
            split    == spB >= 0 /\ i < n - 1
            speedStr == IF split THEN substring(rem1, 0, spB) ELSE rem1
            rem2     == IF split THEN trim(substringFrom(rem1, spB + 1)) ELSE <<>>
            id       == toInt(idStr)
            speed    == toInt(speedStr)
        IN  IF id < 0 \/ id > 253 THEN Res(cs, <<L("ERROR: invalid ID")>>)
            ELSE
            LET c1 == Call("EnableTorque", U8(id), <<1>>, o, Len(cs) + 1)
                c2 == Call("WriteSpe", U8(id), <<I16(clampWheel(speed))>>, o,
                           Len(cs) + 2)
            IN  IF c2.ret = FAIL THEN Res(cs \o <<c1, c2>>, <<L("ERROR")>>)
                ELSE syncSpeedLoop(i + 1, n, rem2, cs \o <<c1, c2>>, o)

\* handleSyncSpeed
SyncSpeedRun(args, o) ==
    LET sp1 == indexOf(args, SP, 0)
    IN  IF sp1 < 0 THEN Res(<<>>, <<L("ERROR: SYNC_SPEED usage")>>)
        ELSE
        LET n == toInt(substring(args, 0, sp1))
        IN  IF n < 1 \/ n > 12 THEN Res(<<>>, <<L("ERROR: n out of range")>>)
            ELSE syncSpeedLoop(0, n, trim(substringFrom(args, sp1 + 1)), <<>>, o)

\* handleStop
StopRun(args, o) ==
    LET id == toInt(args)
    IN  IF id < 0 \/ id > 253 THEN Res(<<>>, <<L("ERROR: invalid ID")>>)
        ELSE
        LET c1 == Call("EnableTorque", U8(id), <<1>>, o, 1)
            c2 == Call("WriteSpe", U8(id), <<0>>, o, 2)
        IN  Res(<<c1, c2>>, <<L(IF c2.ret # FAIL THEN "OK" ELSE "ERROR")>>)

\* the loop of handleStopAll with the early return on a failed write left out
RECURSIVE stopAllLoop_NoAbort(_, _, _)
stopAllLoop_NoAbort(i, cs, o) ==
    IF i >= SERVO_COUNT THEN Res(cs, <<L("OK")>>)
    ELSE
    LET id == SERVO_IDS[i + 1]
        c1 == Call("EnableTorque", id, <<1>>, o, Len(cs) + 1)
        c2 == Call("WriteSpe", id, <<0>>, o, Len(cs) + 2)
    IN  stopAllLoop_NoAbort(i + 1, cs \o <<c1, c2>>, o)

\* the loop of handleStopAll from roster index i (0-based) on
RECURSIVE stopAllLoop(_, _, _)
stopAllLoop(i, cs, o) ==
    IF i >= SERVO_COUNT THEN Res(cs, <<L("OK")>>)
    ELSE
    LET id == SERVO_IDS[i + 1]
        c1 == Call("EnableTorque", id, <<1>>, o, Len(cs) + 1)
        c2 == Call("WriteSpe", id, <<0>>, o, Len(cs) + 2)
    IN  IF c2.ret = FAIL THEN Res(cs \o <<c1, c2>>, <<L("ERROR")>>)
        ELSE stopAllLoop(i + 1, cs \o <<c1, c2>>, o)

\* handleStopAll
StopAllRun(o) == stopAllLoop(0, <<>>, o)

\* handleReadSpeed
ReadSpeedRun(args, o) ==
    LET id == toInt(args)
    IN  IF id < 0 \/ id > 253 THEN Res(<<>>, <<L("ERROR: invalid ID")>>)
        ELSE LET c == Call("ReadSpeed", U8(id), <<>>, o, 1)
             IN  Res(<<c>>, <<IF c.ret # FAIL THEN LN("SPEED", <<c.ret>>)
                              ELSE L("ERROR")>>)

\* handleEnableTorque
EnableTorqueRun(args, o) ==
    LET id == toInt(args)
    IN  IF id < 0 \/ id > 253 THEN Res(<<>>, <<L("ERROR: Invalid ID")>>)
        ELSE LET c == Call("EnableTorque", U8(id), <<1>>, o, 1)
             IN  Res(<<c>>, <<L(IF c.ret # FAIL THEN "OK"
                                ELSE "ERROR: enable torque fail")>>)

\* handleDisableTorque
DisableTorqueRun(args, o) ==
    LET id == toInt(args)
    IN  IF id < 0 \/ id > 253 THEN Res(<<>>, <<L("ERROR: Invalid ID")>>)
        ELSE LET c == Call("EnableTorque", U8(id), <<0>>, o, 1)
             IN  Res(<<c>>, <<L(IF c.ret # FAIL THEN "OK"
                                ELSE "ERROR: disable torque fail")>>)

\* handleReadLoad
ReadLoadRun(args, o) ==
    LET id == toInt(args)
    IN  IF id < 0 \/ id > 253 THEN Res(<<>>, <<L("ERROR: invalid ID")>>)
        ELSE LET c == Call("ReadLoad", id, <<>>, o, 1)
             IN  Res(<<c>>, <<IF c.ret # FAIL THEN LN("LOAD", <<c.ret>>)
                              ELSE L("ERROR: read load fail")>>)

\* handleReadVoltage
ReadVoltageRun(args, o) ==
    LET id == toInt(args)
    IN  IF id < 0 \/ id > 253 THEN Res(<<>>, <<L("ERROR: invalid ID")>>)
        ELSE LET c == Call("ReadVoltage", id, <<>>, o, 1)
             IN  Res(<<c>>, <<IF c.ret # FAIL THEN LN("VOLTAGE", <<c.ret>>)
                              ELSE L("ERROR: read voltage fail")>>)

\* handleReadTemp with the broadcast ID 254 let through
ReadTempRun_Allow254(args, o) ==
    LET id == toInt(args)
    IN  IF id < 0 \/ id > 254 THEN Res(<<>>, <<L("ERROR: invalid ID")>>)
        ELSE LET c == Call("ReadTemper", id, <<>>, o, 1)
             IN  Res(<<c>>, <<IF c.ret # FAIL THEN LN("TEMP", <<c.ret>>)
                              ELSE L("ERROR: read temperature fail")>>)

\* handleReadTemp
ReadTempRun(args, o) ==
    LET id == toInt(args)
    IN  IF id < 0 \/ id > 253 THEN Res(<<>>, <<L("ERROR: invalid ID")>>)
        ELSE LET c == Call("ReadTemper", id, <<>>, o, 1)
             IN  Res(<<c>>, <<IF c.ret # FAIL THEN LN("TEMP", <<c.ret>>)
                              ELSE L("ERROR: read temperature fail")>>)

---------------------------------------------------------------------------
(* The host: the lines it sends, as the protocol comment describes them    *)
(* ("<COMMAND> [arg1] [arg2] ...", one command per line, any letter case). *)

\* the command names of processCommand, FOO and PINGS standing for names it
\* does not know, EMPTY for a blank line
Name ==
    [PING           |-> <<"P","I","N","G">>,
     SCAN_ID        |-> <<"S","C","A","N","_","I","D">>,
     SET_ID         |-> <<"S","E","T","_","I","D">>,
     SET_SERVO      |-> <<"S","E","T","_","S","E","R","V","O">>,
     SET_WHEEL      |-> <<"S","E","T","_","W","H","E","E","L">>,
     READ_MODE      |-> <<"R","E","A","D","_","M","O","D","E">>,
     MOVE           |-> <<"M","O","V","E">>,
     SYNC_MOVE      |-> <<"S","Y","N","C","_","M","O","V","E">>,
     READ_POS       |-> <<"R","E","A","D","_","P","O","S">>,
     SCAN_POS       |-> <<"S","C","A","N","_","P","O","S">>,
     SPEED          |-> <<"S","P","E","E","D">>,
     SYNC_SPEED     |-> <<"S","Y","N","C","_","S","P","E","E","D">>,
     STOP           |-> <<"S","T","O","P">>,
     STOP_ALL       |-> <<"S","T","O","P","_","A","L","L">>,
     READ_SPEED     |-> <<"R","E","A","D","_","S","P","E","E","D">>,
     ENABLE_TORQUE  |-> <<"E","N","A","B","L","E","_","T","O","R","Q","U","E">>,
     DISABLE_TORQUE |-> <<"D","I","S","A","B","L","E","_","T","O","R","Q","U","E">>,
     READ_LOAD      |-> <<"R","E","A","D","_","L","O","A","D">>,
     READ_VOLTAGE   |-> <<"R","E","A","D","_","V","O","L","T","A","G","E">>,
     READ_TEMP      |-> <<"R","E","A","D","_","T","E","M","P">>,
     FOO            |-> <<"F","O","O">>,
     PINGS          |-> <<"P","I","N","G","S">>,
     EMPTY          |-> <<>>]

\* the commands that take one device ID
SingleIdCmds ==
    {"PING", "SET_SERVO", "SET_WHEEL", "READ_MODE", "READ_POS", "STOP",
     "READ_SPEED", "ENABLE_TORQUE", "DISABLE_TORQUE", "READ_LOAD",
     "READ_VOLTAGE", "READ_TEMP"}

\* decimal text of a natural number
RECURSIVE decNat(_)
decNat(n) ==
    IF n < 10 THEN <<Digits[n + 1]>>
    ELSE decNat(n \div 10) \o <<Digits[(n % 10) + 1]>>

\* decimal text of an integer
Dec(v) == IF v < 0 THEN <<"-">> \o decNat(0 - v) ELSE decNat(v)

\* a field the host writes: its text and the integer the host means by it
W(v) == [txt |-> Dec(v), val |-> v]

\* fields that are not plain decimal numbers: text, digits then text, a plus
\* sign, nothing at all (two blanks in a row)
WX    == [txt |-> <<"x">>, val |-> 0]
W12a  == [txt |-> <<"1", "2", "a">>, val |-> 12]
WPlus == [txt |-> <<"+", "7">>, val |-> 7]
WNone == [txt |-> <<>>, val |-> 0]

\* fields for a sequence of integers
WS(vs) == [ i \in 1..Len(vs) |-> W(vs[i]) ]

\* a request: command name, fields, and how the name and blanks are typed
Rq(cmd, ws) == [cmd |-> cmd, words |-> ws, style |-> "plain"]

lowerChar(c) ==
    IF \E i \in 1..26 : UpperAlpha[i] = c
    THEN LowerAlpha[CHOOSE i \in 1..26 : UpperAlpha[i] = c]
    ELSE c

RECURSIVE toLowerCase(_)
toLowerCase(s) ==
    IF s = <<>> THEN <<>> ELSE <<lowerChar(Head(s))>> \o toLowerCase(Tail(s))

RECURSIVE joinWords(_)
joinWords(ws) ==
    IF ws = <<>> THEN <<>> ELSE <<SP>> \o Head(ws).txt \o joinWords(Tail(ws))

\* the characters of the line of a request
Render(r) ==
    LET nm   == IF r.style = "lower"
                THEN [ i \in 1..Len(Name[r.cmd]) |-> lowerChar(Name[r.cmd][i]) ]
                ELSE Name[r.cmd]
        body == nm \o joinWords(r.words)
    IN  IF r.style = "padded" THEN <<SP>> \o body \o <<SP, SP>> ELSE body

\* values the host tries as a device ID
IdVals == {-1, 0, 100, 253, 254, 300}

SingleArgs ==
    {<<>>, <<WX>>, <<W12a>>, <<W(100), W(7)>>} \cup { <<W(v)>> : v \in IdVals }

\* values the host tries as a scan bound: around 0 and around 253
ScanLow  == {-3, 0, 2}
ScanHigh == {250, 253, 256}

ScanArgs ==
    {<<>>, <<WX>>} \cup { <<W(a)>> : a \in ScanLow \cup ScanHigh }
    \cup { <<W(a), W(b)>> : a \in ScanLow, b \in ScanLow }
    \cup { <<W(a), W(b)>> : a \in ScanHigh, b \in ScanHigh }
    \cup { WS(<<0, 253>>), WS(<<253, 0>>), WS(<<-3, 256>>), WS(<<256, -3>>),
           WS(<<110, 90>>), WS(<<90, 110>>),
           WS(<<INT_MAX>>), WS(<<INT_MAX, 5>>), WS(<<5, INT_MAX>>) }

SetIdVals == {-1, 0, 1, 2, 253, 254}

SetIdArgs ==
    {<<>>, <<W(1)>>, <<WX, WX>>, <<W(1), W(2), W(3)>>, <<W(1), WNone, W(2)>>}
    \cup { <<W(a), W(b)>> : a \in SetIdVals, b \in SetIdVals }

\* values the host tries as position, speed and acceleration
MagVals == {-1, 0, 255, 256, 4095, 4096}

MoveArgs ==
    {<<>>, <<W(100)>>, <<W(100), W(1)>>, <<W(100), W(1), W(1)>>,
     <<WX, WX, WX, WX>>, <<W(100), W12a, WPlus, WX>>,
     <<W(100), WNone, W(5), W(6)>>,
     WS(<<100, 2048, 400, 50>>), WS(<<101, 5000, 5000, 300>>),
     WS(<<100, 1, 2, 3, 4>>)}
    \cup { WS(<<i, 2048, 400, 50>>) : i \in IdVals }
    \cup { WS(<<100, p, s, a>>) : p \in MagVals, s \in {-1, 0, 4095, 4096},
                                   a \in {-1, 0, 255, 256} }

WheelVals == {-5000, -4096, -4095, -1, 0, 1, 4095, 4096, 5000}

SpeedArgs ==
    {<<>>, <<W(100)>>, <<WX, WX>>, <<W(100), WX>>, WS(<<100, 5, 6>>)}
    \cup { WS(<<i, 300>>) : i \in IdVals }
    \cup { WS(<<100, s>>) : s \in WheelVals }

\* the fields of SYNC_MOVE n t1 t2 ..., each t a tuple <<id, pos, speed, acc>>
SyncLine(n, ts) ==
    <<W(n)>> \o [ i \in 1..(4 * Len(ts)) |->
                    W(ts[((i - 1) \div 4) + 1][((i - 1) % 4) + 1]) ]

\* the fields of SYNC_SPEED n t1 t2 ..., each t a tuple <<id, speed>>
SyncSpeedLine(n, ts) ==
    <<W(n)>> \o [ i \in 1..(2 * Len(ts)) |->
                    W(ts[((i - 1) \div 2) + 1][((i - 1) % 2) + 1]) ]

\* k tuples for devices 100, 101, ...: in range, with magnitudes that vary
MoveTuples(k) == [ i \in 1..k |-> <<99 + i, 100 * i, 4095 - i, 20 * i>> ]
SpeedTuples(k) == [ i \in 1..k |-> <<99 + i, 300 * i - 2000>> ]

MoveTupleSet ==
    { <<i, 2048, 400, 50>> : i \in IdVals }
    \cup { <<100, 5000, 5000, 300>>, <<100, -1, -1, -1>>,
           <<101, 4095, 4095, 255>>, <<101, 4096, 4096, 256>>, <<101, 0, 0, 0>> }

SyncMoveArgs ==
    {<<>>, <<W(0)>>, <<W(1)>>, <<W(13)>>, <<WX>>, <<WX, WX, WX, WX, WX>>,
     WS(<<1, 100>>), WS(<<1, 100, 1>>), WS(<<1, 100, 1, 1>>),
     WS(<<2, 100, 1, 1, 1, 101>>), WS(<<2, 100, 1, 1, 1, 101, 1, 1>>),
     SyncLine(2, <<<<100, 2048, 400, 50>>, <<101, 5000, 5000, 300>>>>),
     SyncLine(1, <<<<100, 2048, 400, 50>>, <<101, 5000, 5000, 300>>>>),
     SyncLine(2, <<<<100, 1, 1, 1>>, <<300, 1, 1, 1>>>>),
     SyncLine(2, <<<<254, 1, 1, 1>>, <<100, 1, 1, 1>>>>),
     SyncLine(2, <<<<100, 1, 1, 1>>, <<100, 2, 2, 2>>>>)}
    \cup { SyncLine(n, <<t>>) : n \in {-1, 0, 1, 2, 13}, t \in MoveTupleSet }
    \cup { SyncLine(n, MoveTuples(k)) : n \in {3, 11, 12, 13}, k \in {3, 11, 12} }

SpeedTupleSet ==
    { <<i, 300>> : i \in IdVals } \cup { <<100, s>> : s \in WheelVals }

SyncSpeedArgs ==
    {<<>>, <<W(0)>>, <<W(1)>>, <<W(13)>>, <<WX>>, <<WX, WX, WX>>,
     WS(<<1, 100>>), WS(<<2, 100, 50>>), WS(<<2, 100>>),
     WS(<<2, 100, 50, 101>>), WS(<<1, 100, 50, 101, 60>>),
     WS(<<2, 100, 50, 300, 60>>), WS(<<2, 300, 50, 100, 60>>),
     WS(<<2, 100, 50, 254, 60>>), WS(<<2, 100, 50, 100, 60>>),
     WS(<<2, 101, 5000, 100, -5000>>), WS(<<3, 100, 50, 101, 60, -1, 70>>)}
    \cup { SyncSpeedLine(1, <<t>>) : t \in SpeedTupleSet }
    \cup { SyncSpeedLine(n, <<t>>) : n \in {-1, 0, 2, 13},
                                     t \in {<<100, 300>>, <<254, 300>>} }
    \cup { SyncSpeedLine(n, SpeedTuples(k)) : n \in {3, 7, 12, 13}, k \in {3, 7} }
    \cup { SyncSpeedLine(n, SpeedTuples(12)) : n \in {12, 13} }

\* lines typed in lower case or with blanks around them
StyledRequests ==
    { [cmd |-> c, words |-> ws, style |-> s] :
        c \in {"PING", "STOP"}, ws \in {<<W(100)>>, <<W(254)>>},
        s \in {"lower", "padded"} }
    \cup { [cmd |-> "MOVE", words |-> WS(<<100, 2048, 400, 50>>), style |-> s] :
             s \in {"lower", "padded"} }
    \cup { [cmd |-> c, words |-> <<>>, style |-> s] :
             c \in {"STOP_ALL", "FOO", "EMPTY"}, s \in {"lower", "padded"} }

Requests ==
    { Rq(c, ws) : c \in SingleIdCmds, ws \in SingleArgs }
    \cup { Rq(c, ws) : c \in {"SCAN_ID", "SCAN_POS"}, ws \in ScanArgs }
    \cup { Rq("SET_ID", ws) : ws \in SetIdArgs }
    \cup { Rq("MOVE", ws) : ws \in MoveArgs }
    \cup { Rq("SPEED", ws) : ws \in SpeedArgs }
    \cup { Rq("SYNC_MOVE", ws) : ws \in SyncMoveArgs }
    \cup { Rq("SYNC_SPEED", ws) : ws \in SyncSpeedArgs }
    \cup { Rq("STOP_ALL", ws) : ws \in {<<>>, <<W(1)>>} }
    \cup { Rq(c, ws) : c \in {"FOO", "PINGS"}, ws \in {<<>>, WS(<<100, 1>>)} }
    \cup { Rq("EMPTY", <<>>) }
    \cup StyledRequests

\* how many of its driver calls a command can reach at most: a stub that
\* deviates later than that is indistinguishable from one that never does
Horizon(cmd) ==
    CASE cmd \in {"SYNC_SPEED", "STOP_ALL"} -> MaxAt
      [] cmd \in {"SCAN_ID", "SCAN_POS"} -> MaxScanAt
      [] cmd = "SET_ID" -> 3
      [] cmd \in {"SET_SERVO", "SPEED", "STOP"} -> 2
      [] cmd \in {"FOO", "PINGS", "EMPTY"} -> 0
      [] OTHER -> 1

NoReq == [cmd |-> "EMPTY", words |-> <<>>, style |-> "plain"]
NoOracle == [dflt |-> 0, at |-> 0, val |-> 0]

\* the clamp bench is not in use while the sketch serves lines
NoClamp == [x |-> 0, r |-> <<>>]

---------------------------------------------------------------------------
(* The state machine.                                                      *)

Init ==
    /\ pc = "idle"
    /\ line = <<>>
    /\ req = NoReq
    /\ oracle = NoOracle
    /\ cmdName = <<>>
    /\ cmdArgs = <<>>
    /\ calls = <<>>
    /\ out = <<>>
    /\ prev = <<>>
    /\ cl = NoClamp

\* the host writes one line; the stub for the command is fixed
HostSend ==
    /\ pc = "idle"
    /\ \E r \in Requests, o \in Oracles :
          /\ o.at <= Horizon(r.cmd)
          /\ line' = Render(r)
          /\ req' = r
          /\ oracle' = o
    /\ pc' = "received"
    /\ UNCHANGED <<cmdName, cmdArgs, calls, out, prev, cl>>

\* loop() reads and trims the line; processCommand() splits a non-empty one
\* at its first blank into the upper-cased name and the trimmed tail
loop ==
    /\ pc = "received"
    /\ LET cmd             == trim(line)
           firstSpaceIndex == indexOf(cmd, SP, 0)
       IN  \/ /\ length(cmd) > 0
              /\ pc' = "dispatch"
              /\ cmdName' = toUpperCase(IF firstSpaceIndex > 0
                                        THEN substring(cmd, 0, firstSpaceIndex)
                                        ELSE cmd)
              /\ cmdArgs' = IF firstSpaceIndex > 0
                            THEN trim(substringFrom(cmd, firstSpaceIndex + 1))
                            ELSE <<>>
           \/ /\ length(cmd) = 0
              /\ pc' = "done"
              /\ UNCHANGED <<cmdName, cmdArgs>>
    /\ UNCHANGED <<line, req, oracle, calls, out, prev, cl>>

\* the handler chosen by the beginning of the name instead of the whole name
Dispatch_Prefix(nm) ==
    /\ pc = "dispatch"
    /\ Len(cmdName) >= Len(nm)
    /\ SubSeq(cmdName, 1, Len(nm)) = nm

\* processCommand() selects the handler by name
Dispatch(nm) ==
    /\ pc = "dispatch"
    /\ cmdName = nm

\* the handler returns and loop() is over, or the handler never returns
Finish(r) ==
    /\ calls' = r.calls
    /\ out' = r.out
    /\ pc' = IF r.hang THEN "looping" ELSE "done"
    /\ UNCHANGED <<line, req, oracle, cmdName, cmdArgs, prev, cl>>

handlePing          == Dispatch(Name.PING) /\ Finish(PingRun(cmdArgs, oracle))
handleScanID        == Dispatch(Name.SCAN_ID) /\ Finish(ScanIDRun(cmdArgs, oracle))
handleSetID         == Dispatch(Name.SET_ID) /\ Finish(SetIDRun(cmdArgs, oracle))
handleSetServo      == Dispatch(Name.SET_SERVO) /\ Finish(SetServoRun(cmdArgs, oracle))
handleSetWheel      == Dispatch(Name.SET_WHEEL) /\ Finish(SetWheelRun(cmdArgs, oracle))
handleReadMode      == Dispatch(Name.READ_MODE) /\ Finish(ReadModeRun(cmdArgs, oracle))
handleMove          == Dispatch(Name.MOVE) /\ Finish(MoveRun(cmdArgs, oracle))
handleSyncMove      == Dispatch(Name.SYNC_MOVE) /\ Finish(SyncMoveRun(cmdArgs, oracle))
handleReadPos       == Dispatch(Name.READ_POS) /\ Finish(ReadPosRun(cmdArgs, oracle))
handleScanPos       == Dispatch(Name.SCAN_POS) /\ Finish(ScanPosRun(cmdArgs, oracle))
handleSpeed         == Dispatch(Name.SPEED) /\ Finish(SpeedRun(cmdArgs, oracle))
handleSyncSpeed     == Dispatch(Name.SYNC_SPEED) /\ Finish(SyncSpeedRun(cmdArgs, oracle))
handleStop          == Dispatch(Name.STOP) /\ Finish(StopRun(cmdArgs, oracle))
handleStopAll       == Dispatch(Name.STOP_ALL) /\ Finish(StopAllRun(oracle))
handleReadSpeed     == Dispatch(Name.READ_SPEED) /\ Finish(ReadSpeedRun(cmdArgs, oracle))
handleEnableTorque  == Dispatch(Name.ENABLE_TORQUE) /\ Finish(EnableTorqueRun(cmdArgs, oracle))
handleDisableTorque == Dispatch(Name.DISABLE_TORQUE) /\ Finish(DisableTorqueRun(cmdArgs, oracle))
handleReadLoad      == Dispatch(Name.READ_LOAD) /\ Finish(ReadLoadRun(cmdArgs, oracle))
handleReadVoltage   == Dispatch(Name.READ_VOLTAGE) /\ Finish(ReadVoltageRun(cmdArgs, oracle))
handleReadTemp      == Dispatch(Name.READ_TEMP) /\ Finish(ReadTempRun(cmdArgs, oracle))

\* the names processCommand() compares with
KnownNames ==
    { Name[c] : c \in SingleIdCmds
                  \cup {"SCAN_ID", "SET_ID", "MOVE", "SYNC_MOVE", "SCAN_POS",
                        "SPEED", "SYNC_SPEED", "STOP_ALL"} }

\* processCommand(): the final else
unknownCommand ==
    /\ pc = "dispatch"
    /\ cmdName \notin KnownNames
    /\ Finish(Res(<<>>, <<L("ERROR: Unknown command")>>))

\* the host has read the response; loop() waits for the next line
HostCollect ==
    /\ pc = "done"
    /\ pc' = "idle"
    /\ line' = <<>>
    /\ req' = NoReq
    /\ oracle' = NoOracle
    /\ cmdName' = <<>>
    /\ cmdArgs' = <<>>
    /\ calls' = <<>>
    /\ out' = <<>>
    /\ prev' = <<>>
    /\ UNCHANGED cl

\* the host has read the response and sends the same line once more with
\* the command name in lower case, to a bus that answers as before
HostResend ==
    /\ pc = "done"
    /\ req.style = "plain"
    /\ prev = <<>>
    /\ prev' = <<[calls |-> calls, out |-> out]>>
    /\ req' = [req EXCEPT !.style = "lower"]
    /\ line' = Render([req EXCEPT !.style = "lower"])
    /\ pc' = "received"
    /\ calls' = <<>>
    /\ out' = <<>>
    /\ UNCHANGED <<oracle, cmdName, cmdArgs, cl>>

Next ==
    \/ HostSend
    \/ loop
    \/ handlePing
    \/ handleScanID
    \/ handleSetID
    \/ handleSetServo
    \/ handleSetWheel
    \/ handleReadMode
    \/ handleMove
    \/ handleSyncMove
    \/ handleReadPos
    \/ handleScanPos
    \/ handleSpeed
    \/ handleSyncSpeed
    \/ handleStop
    \/ handleStopAll
    \/ handleReadSpeed
    \/ handleEnableTorque
    \/ handleDisableTorque
    \/ handleReadLoad
    \/ handleReadVoltage
    \/ handleReadTemp
    \/ unknownCommand
    \/ HostCollect
    \/ HostResend

Spec == Init /\ [][Next]_vars

---------------------------------------------------------------------------
(* The clamp bench: every clamp of the sketch applied to an integer, then  *)
(* again to its own result.                                                *)

ClampInputs == (0 - ClampSpan)..ClampSpan

\* the four clamps of handleMove / handleSyncMove / handleSpeed /
\* handleSyncSpeed, each applied to its own field
clampAll(v) ==
    [pos |-> clampPos(v.pos), spd |-> clampSpeed(v.spd),
     acc |-> clampAcc(v.acc), whl |-> clampWheel(v.whl)]

InitClamp ==
    /\ pc = "clamp"
    /\ line = <<>>
    /\ req = NoReq
    /\ oracle = NoOracle
    /\ cmdName = <<>>
    /\ cmdArgs = <<>>
    /\ calls = <<>>
    /\ out = <<>>
    /\ prev = <<>>
    /\ cl \in { [x |-> v, r |-> <<>>] : v \in ClampInputs }

applyClamps ==
    /\ pc = "clamp"
    /\ Len(cl.r) < 2
    /\ cl' = [cl EXCEPT !.r =
                Append(@, clampAll(IF @ = <<>>
                                   THEN [pos |-> cl.x, spd |-> cl.x,
                                         acc |-> cl.x, whl |-> cl.x]
                                   ELSE @[Len(@)]))]
    /\ UNCHANGED <<pc, line, req, oracle, cmdName, cmdArgs, calls, out, prev>>

NextClamp == applyClamps

SpecClamp == InitClamp /\ [][NextClamp]_vars

---------------------------------------------------------------------------
(* Vocabulary of the properties: what the host sent and what came back.    *)

Done == pc = "done"

\* the number of fields the host sent after the command name
nf == Len(req.words)

\* the integer the host means by its i-th field
val(i) == req.words[i].val

\* the first field as an integer, 0 when there is none (String::toInt of "")
firstVal == IF nf = 0 THEN 0 ELSE val(1)

ValidId(i) == i \in 0..253

\* every ERROR line the sketch can print
ValidationErrors == {"ERROR: Invalid ID", "ERROR: invalid ID", "ERROR: Invalid ID range"}

UsageErrors ==
    {"ERROR: SET_ID usage: SET_ID <oldId> <newId>",
     "ERROR: MOVE usage: MOVE <id> <pos> <speed> <acc>",
     "ERROR: SYNC_MOVE usage", "ERROR: n out of range",
     "ERROR: not enough arguments for SYNC_MOVE",
     "ERROR: SPEED usage: SPEED <id> <speed>",
     "ERROR: SYNC_SPEED usage", "ERROR: not enough args"}

BusErrors ==
    {"ERROR", "ERROR: Ping fail", "ERROR: write ID fail", "ERROR: read pos fail",
     "ERROR: enable torque fail", "ERROR: disable torque fail",
     "ERROR: read load fail", "ERROR: read voltage fail",
     "ERROR: read temperature fail"}

ErrorTexts == ValidationErrors \cup UsageErrors \cup BusErrors \cup {"ERROR: Unknown command"}

\* the command answered with exactly one line, and that an error of set E
OneError(E) == Len(out) = 1 /\ out[1].t \in E

\* x saturated to [lo, hi]
Sat(x, lo, hi) == IF x < lo THEN lo ELSE IF x > hi THEN hi ELSE x

\* the device IDs a driver call addresses
CallIds(c) ==
    IF c.op = "SyncWritePosEx" THEN { c.batch[i].id : i \in 1..Len(c.batch) }
    ELSE {c.id}

\* the positions in `calls` of the calls of operation op
CallsOf(op) == { k \in 1..Len(calls) : calls[k].op = op }

\* the declared tuple count of a sync command, once a first field is there
syncN == val(1)

\* the j-th field (1-based) of the i-th tuple (1-based) of a sync command
\* whose tuples have w fields
tupleVal(w, i, j) == val(1 + w * (i - 1) + j)

---------------------------------------------------------------------------
(* C1: every device ID handed to a driver call lies in [0,253], for every  *)
(* command and every argument value, the scans and the SYNC_MOVE batch     *)
(* included.                                                               *)
C1_AllIdsInRange ==
    \A k \in 1..Len(calls) : \A i \in CallIds(calls[k]) : ValidId(i)

(* C2: MOVE, SYNC_MOVE, SPEED and SYNC_SPEED hand the driver only          *)
(* magnitudes inside their ranges, each the host's value saturated to the  *)
(* nearest bound, and an out-of-range magnitude does not get the command   *)
(* rejected.                                                               *)
C2_MagnitudesSaturated ==
    Done =>
    /\ \A k \in CallsOf("WritePosEx") :
          /\ calls[k].a[1] \in 0..4095
          /\ calls[k].a[2] \in 0..4095
          /\ calls[k].a[3] \in 0..255
    /\ \A k \in CallsOf("SyncWritePosEx") : \A i \in 1..Len(calls[k].batch) :
          /\ calls[k].batch[i].pos \in 0..4095
          /\ calls[k].batch[i].spd \in 0..4095
          /\ calls[k].batch[i].acc \in 0..255
    /\ \A k \in CallsOf("WriteSpe") : calls[k].a[1] \in (-4095)..4095
    /\ (req.cmd = "MOVE" /\ nf >= 4 /\ ValidId(val(1))) =>
          /\ out = <<L("OK")>>
          /\ Len(calls) = 1
          /\ calls[1].op = "WritePosEx"
          /\ calls[1].a = <<Sat(val(2), 0, 4095), Sat(val(3), 0, 4095),
                            Sat(val(4), 0, 255)>>
    /\ (req.cmd = "SPEED" /\ nf >= 2 /\ ValidId(val(1))) =>
          /\ Len(calls) = 2
          /\ calls[2].op = "WriteSpe"
          /\ calls[2].a = <<Sat(val(2), -4095, 4095)>>
          /\ out \in {<<L("OK")>>, <<L("ERROR")>>}
    /\ (req.cmd = "SYNC_MOVE") =>
          \A k \in CallsOf("SyncWritePosEx") : \A i \in 1..Len(calls[k].batch) :
             /\ calls[k].batch[i].pos = Sat(tupleVal(4, i, 2), 0, 4095)
             /\ calls[k].batch[i].spd = Sat(tupleVal(4, i, 3), 0, 4095)
             /\ calls[k].batch[i].acc = Sat(tupleVal(4, i, 4), 0, 255)
    /\ (req.cmd = "SYNC_SPEED") =>
          \A k \in CallsOf("WriteSpe") :
             calls[k].a = <<Sat(tupleVal(2, k \div 2, 2), -4095, 4095)>>

\* a MOVE whose three magnitudes are all above range went out saturated
C2_Witness ==
    /\ Done
    /\ req.cmd = "MOVE"
    /\ nf = 4
    /\ val(2) > 4095 /\ val(3) > 4095 /\ val(4) > 255
    /\ Len(calls) = 1
    /\ calls[1].a = <<4095, 4095, 255>>

(* C3: a command taking one device ID answers an ID outside [0,253] with a *)
(* validation error and no driver call, and an ID inside [0,253] with its  *)
(* non-error response when every driver call succeeds.                     *)
C3_SingleIdValidation ==
    (Done /\ req.cmd \in SingleIdCmds) =>
    /\ ~ValidId(firstVal) => (calls = <<>> /\ OneError(ValidationErrors))
    /\ (ValidId(firstVal) /\ \A k \in 1..Len(calls) : calls[k].ret # FAIL) =>
          /\ Len(calls) >= 1
          /\ Len(out) = 1
          /\ out[1].t \notin ErrorTexts

\* READ_TEMP 254 was refused without touching the bus
C3_Witness ==
    /\ Done
    /\ req.cmd = "READ_TEMP"
    /\ firstVal = 254
    /\ calls = <<>>
    /\ out = <<L("ERROR: invalid ID")>>

(* C4: SET_ID, SYNC_MOVE and SYNC_SPEED with any device ID field outside   *)
(* [0,253] are rejected with an error line and make no driver call at all. *)
C4_MultiIdRejected ==
    LET w == IF req.cmd = "SYNC_MOVE" THEN 4 ELSE 2
        badSetId == nf = 2 /\ (~ValidId(val(1)) \/ ~ValidId(val(2)))
        badSync  == /\ nf >= 1
                    /\ syncN \in 1..12
                    /\ \E i \in 1..syncN :
                          /\ 1 + w * (i - 1) + 1 <= nf
                          /\ ~ValidId(tupleVal(w, i, 1))
    IN  /\ (Done /\ req.cmd = "SET_ID" /\ badSetId) =>
              (calls = <<>> /\ OneError(ErrorTexts))
        /\ (Done /\ req.cmd \in {"SYNC_MOVE", "SYNC_SPEED"} /\ badSync) =>
              (calls = <<>> /\ OneError(ErrorTexts))

(* C5: SET_ID, MOVE, SPEED, SYNC_MOVE and SYNC_SPEED with fewer fields     *)
(* than they require (for the sync commands: than their n tuples need)     *)
(* answer with an error line and make no driver call.                      *)
C5_UsageErrorNoBusCall ==
    LET need == CASE req.cmd = "SET_ID" -> 2
                  [] req.cmd = "MOVE" -> 4
                  [] req.cmd = "SPEED" -> 2
                  [] req.cmd = "SYNC_MOVE" ->
                        IF nf >= 1 /\ syncN \in 1..12 THEN 1 + 4 * syncN ELSE 1
                  [] req.cmd = "SYNC_SPEED" ->
                        IF nf >= 1 /\ syncN \in 1..12 THEN 1 + 2 * syncN ELSE 1
                  [] OTHER -> 0
    IN  (Done /\ nf < need) => (calls = <<>> /\ OneError(ErrorTexts))


(* C6: a sync batch has 1 to 12 entries: SYNC_MOVE and SYNC_SPEED whose    *)
(* declared count n is below 1 or above 12 are rejected with an error and  *)
(* no driver call, whatever follows n on the line.                         *)
C6_SyncCountBounds ==
    /\ \A k \in CallsOf("SyncWritePosEx") :
          calls[k].n \in 1..12 /\ Len(calls[k].batch) = calls[k].n
    /\ (Done /\ req.cmd = "SYNC_SPEED") => Cardinality(CallsOf("WriteSpe")) <= 12
    /\ (Done /\ req.cmd \in {"SYNC_MOVE", "SYNC_SPEED"} /\ nf >= 1
             /\ syncN \notin 1..12) =>
          (calls = <<>> /\ OneError(ErrorTexts))

\* SYNC_MOVE 13 followed by tuples was refused for its count
C6_Witness ==
    /\ Done
    /\ req.cmd = "SYNC_MOVE"
    /\ nf > 1
    /\ syncN = 13
    /\ calls = <<>>
    /\ out = <<L("ERROR: n out of range")>>

(* C7: a SYNC_MOVE with 1 <= n <= 12 complete tuples makes exactly one     *)
(* driver call, the batch write, whose batch holds the n tuples in input   *)
(* order, position, speed and acceleration each saturated to its range.    *)
C7_SyncMoveOneBatch ==
    (Done /\ req.cmd = "SYNC_MOVE" /\ nf >= 1 /\ syncN \in 1..12
          /\ nf >= 1 + 4 * syncN) =>
    /\ Len(calls) = 1
    /\ calls[1].op = "SyncWritePosEx"
    /\ calls[1].n = syncN
    /\ Len(calls[1].batch) = syncN
    /\ \A i \in 1..syncN :
          /\ calls[1].batch[i].id = tupleVal(4, i, 1) % 256
          /\ calls[1].batch[i].pos = Sat(tupleVal(4, i, 2), 0, 4095)
          /\ calls[1].batch[i].spd = Sat(tupleVal(4, i, 3), 0, 4095)
          /\ calls[1].batch[i].acc = Sat(tupleVal(4, i, 4), 0, 255)

\* SYNC_MOVE 2 100 2048 400 50 101 5000 5000 300 went out as one batch
C7_Witness ==
    /\ Done
    /\ req.cmd = "SYNC_MOVE"
    /\ nf = 9
    /\ syncN = 2
    /\ Len(calls) = 1
    /\ calls[1].batch =
          <<[id |-> 100, pos |-> 2048, spd |-> 400, acc |-> 50],
            [id |-> 101, pos |-> 4095, spd |-> 4095, acc |-> 255]>>

\* the IDs a scan addressed, in call order
PingedIds == [ k \in 1..Len(calls) |-> calls[k].id ]

\* lo, lo+1, ..., hi (empty when hi < lo)
Ascending(lo, hi) == [ k \in 1..(hi - lo + 1) |-> lo + k - 1 ]

Min(a, b) == IF a < b THEN a ELSE b
Max(a, b) == IF a < b THEN b ELSE a

\* the bounds the host gave SCAN_ID, with the defaults for those it left out
scanFrom == IF nf >= 1 THEN val(1) ELSE 0
scanTo   == IF nf >= 2 THEN val(2) ELSE 253

(* C8 as stated: SCAN_ID pings each ID of its window once, ascending, and  *)
(* nothing else; the window is [0,253] without arguments, [from,253] with  *)
(* one and [min(from,to), max(from,to)] with two.                          *)
C8_ScanWindowAsStated ==
    (Done /\ req.cmd = "SCAN_ID") =>
    /\ \A k \in 1..Len(calls) : calls[k].op = "Ping"
    /\ PingedIds = IF nf >= 2
                   THEN Ascending(Min(scanFrom, scanTo), Max(scanFrom, scanTo))
                   ELSE Ascending(scanFrom, 253)

(* C8 amended: SCAN_ID pings each ID of its window once, ascending, and    *)
(* nothing else; with f = max(from, 0) and t = min(to, 253), from          *)
(* defaulting to 0 and to to 253, the window is [min(f,t), max(f,t)].  A   *)
(* window that ends at 2147483647 is pinged upwards from its lower end and *)
(* the scan never finishes.                                                *)
C8_ScanWindowClamped ==
    (req.cmd = "SCAN_ID" /\ pc \in {"done", "looping"}) =>
    LET f  == Max(scanFrom, 0)
        t  == Min(scanTo, 253)
        lo == Min(f, t)
        hi == Max(f, t)
    IN  /\ \A k \in 1..Len(calls) : calls[k].op = "Ping"
        /\ IF hi < INT_MAX
           THEN Done /\ PingedIds = Ascending(lo, hi)
           ELSE pc = "looping" /\ PingedIds = Ascending(lo, lo + Len(calls) - 1)

\* SCAN_ID 110 90 pinged 90..110
C8_Witness ==
    /\ Done
    /\ req.cmd = "SCAN_ID"
    /\ nf = 2
    /\ scanFrom = 110 /\ scanTo = 90
    /\ Len(calls) = 21
    /\ calls[1].id = 90 /\ calls[21].id = 110

IsWriteSpe(c) == c.op = "WriteSpe"

(* C9: STOP_ALL writes speed zero once per roster entry 100..106, in       *)
(* roster order; the first write that returns the failure sentinel ends    *)
(* the command with ERROR and no further driver call; without a failure    *)
(* it answers OK after the last entry.                                     *)
C9_StopAllRoster ==
    (Done /\ req.cmd = "STOP_ALL") =>
    LET wr     == SelectSeq(calls, IsWriteSpe)
        m      == Len(wr)
        failed == { k \in 1..m : wr[k].ret = FAIL }
    IN  /\ m <= 7
        /\ \A k \in 1..m : wr[k].id = 99 + k /\ wr[k].a = <<0>>
        /\ failed = {} => (m = 7 /\ out = <<L("OK")>>)
        /\ failed # {} =>
              /\ failed = {m}
              /\ calls[Len(calls)].op = "WriteSpe"
              /\ calls[Len(calls)].ret = FAIL
              /\ out = <<L("ERROR")>>

\* STOP_ALL gave up at the third roster entry
C9_Witness ==
    /\ Done
    /\ req.cmd = "STOP_ALL"
    /\ Len(calls) = 6
    /\ calls[6].id = 102
    /\ calls[6].ret = FAIL
    /\ out = <<L("ERROR")>>

(* C10: SET_ID never leaves a device unlocked: the device that got the     *)
(* unlock call gets a lock call at the ID it answers to when the command   *)
(* ends - the new ID if the ID write took effect, the old one if not.      *)
C10_SetIdRelocks ==
    (Done /\ req.cmd = "SET_ID") =>
    \A ku \in CallsOf("unLockEprom") :
       LET dev   == calls[ku].id
           moved == { kw \in CallsOf("writeByte:SMS_STS_ID") :
                        kw > ku /\ calls[kw].id = dev /\ calls[kw].ret # 0 }
           final == IF moved = {} THEN dev
                    ELSE calls[CHOOSE kw \in moved : TRUE].a[1]
       IN  \E kl \in CallsOf("LockEprom") : kl > ku /\ calls[kl].id = final

---------------------------------------------------------------------------
\* the handler has acted on the line: it returned, or it loops for ever
Acted == pc \in {"done", "looping"}

\* the names the host sends that are none of the twenty commands
UnknownCmds == {"FOO", "PINGS"}

(* C11: a line whose name is none of the defined commands is answered with *)
(* exactly the one line `ERROR: Unknown command` and makes no driver call, *)
(* whatever its arguments.                                                 *)
C11_UnknownCommand ==
    (Acted /\ req.cmd \in UnknownCmds) =>
    /\ Done
    /\ calls = <<>>
    /\ out = <<L("ERROR: Unknown command")>>

\* PINGS 100 1 was answered so
C11_Witness ==
    /\ Done
    /\ req.cmd = "PINGS"
    /\ nf = 2
    /\ calls = <<>>
    /\ out = <<L("ERROR: Unknown command")>>

\* the commands that address one device
SingleTargetCmds ==
    {"PING", "SET_ID", "SET_SERVO", "SET_WHEEL", "READ_MODE", "MOVE",
     "READ_POS", "SPEED", "STOP", "READ_SPEED", "ENABLE_TORQUE",
     "DISABLE_TORQUE", "READ_LOAD", "READ_VOLTAGE", "READ_TEMP"}

(* C12: every single-target command prints exactly one response line on    *)
(* every path (success, validation error, usage error, driver failure):    *)
(* never none and never two.                                               *)
C12_OneResponseLine ==
    (Acted /\ req.cmd \in SingleTargetCmds) => (Done /\ Len(out) = 1)

\* SET_ID whose write failed printed its one line after three driver calls,
\* and SET_WHEEL whose driver call failed printed its one line
C12_Witness ==
    /\ Done
    /\ \/ /\ req.cmd = "SET_ID"
          /\ Len(calls) = 3
          /\ out = <<L("ERROR: write ID fail")>>
       \/ /\ req.cmd = "SET_WHEEL"
          /\ Len(calls) = 1
          /\ calls[1].ret = FAIL
          /\ out = <<L("ERROR")>>

(* C13: the command name is matched without regard to letter case: a line *)
(* sent again with its name in lower case, to a bus that answers as        *)
(* before, makes the same driver calls with the same arguments and prints  *)
(* the same response lines.                                                *)
C13_NameCaseInsensitive ==
    (Acted /\ prev # <<>>) =>
    /\ Done
    /\ calls = prev[1].calls
    /\ out = prev[1].out

\* `move 100 2048 400 50` wrote to device 100 and was answered OK, as
\* `MOVE 100 2048 400 50` before it
C13_Witness ==
    /\ Done
    /\ prev # <<>>
    /\ req.cmd = "MOVE"
    /\ line[1] = "m"
    /\ Len(calls) = 1
    /\ calls[1].id = 100
    /\ calls[1].a = <<2048, 400, 50>>
    /\ out = <<L("OK")>>
    /\ prev[1].out = <<L("OK")>>

(* C14: each clamp is idempotent: the position clamp to [0,4095], the      *)
(* position-mode speed clamp to [0,4095], the wheel speed clamp to         *)
(* [-4095,4095] and the acceleration clamp to [0,255], applied to their    *)
(* own result, return that result.                                         *)
C14_ClampsIdempotent ==
    Len(cl.r) = 2 => cl.r[2] = cl.r[1]

\* values beyond the ranges were clamped twice: the first time to the
\* bounds, the second time to no effect
C14_Witness ==
    /\ Len(cl.r) = 2
    /\ \/ /\ cl.x = 4100
          /\ cl.r[1] = [pos |-> 4095, spd |-> 4095, acc |-> 255, whl |-> 4095]
       \/ /\ cl.x = -4100
          /\ cl.r[1] = [pos |-> 0, spd |-> 0, acc |-> 0, whl |-> -4095]
    /\ cl.r[2] = cl.r[1]

C16_SyncSpeedAborts ==
    (Acted /\ req.cmd = "SYNC_SPEED") =>
    LET m      == Len(calls) \div 2
        failed == { i \in 1..m : calls[2 * i].ret = FAIL }
    IN  /\ Done
        /\ Len(calls) = 2 * m
        /\ \A i \in 1..m :
              /\ calls[2 * i - 1].op = "EnableTorque"
              /\ calls[2 * i - 1].id = tupleVal(2, i, 1)
              /\ calls[2 * i - 1].a = <<1>>
              /\ calls[2 * i].op = "WriteSpe"
              /\ calls[2 * i].id = tupleVal(2, i, 1)
              /\ calls[2 * i].a = <<Sat(tupleVal(2, i, 2), SPEED_MIN, SPEED_MAX)>>
        /\ failed # {} => (failed = {m} /\ out = <<L("ERROR")>>)
        /\ out = <<L("OK")>> => (m = syncN /\ failed = {})

\* of three tuples the second speed write failed: four driver calls, ERROR
C16_Witness ==
    /\ Done
    /\ req.cmd = "SYNC_SPEED"
    /\ nf = 7
    /\ syncN = 3
    /\ Len(calls) = 4
    /\ calls[2].ret # FAIL
    /\ calls[4].ret = FAIL
    /\ out = <<L("ERROR")>>

IsFound(l) == l.t = "FOUND ID"

Answered(c) == c.ret # FAIL

\* the window the sketch scans for the bounds the host gave
scanLo == Min(Max(scanFrom, 0), Min(scanTo, 253))
scanHi == Max(Max(scanFrom, 0), Min(scanTo, 253))

(* C17: SCAN_ID never aborts on an ID that does not answer: it pings every *)
(* ID of the window and always ends with a FOUND_TOTAL k line; it prints   *)
(* exactly one FOUND line per ping that did not return the failure         *)
(* sentinel, and k is the number of FOUND lines.                           *)
C17_ScanIdCompletes ==
    (Acted /\ req.cmd = "SCAN_ID") =>
    LET found == SelectSeq(out, IsFound)
        hits  == SelectSeq(calls, Answered)
    IN  /\ Done
        /\ PingedIds = Ascending(scanLo, scanHi)
        /\ Len(out) = Len(found) + 2
        /\ out[Len(out)] = LN("FOUND_TOTAL", <<Len(found)>>)
        /\ Len(found) = Len(hits)
        /\ \A j \in 1..Len(found) : found[j].n = <<hits[j].ret>>

IsIdPos(l) == l.t = "ID POS"

(* C18: SCAN_POS runs to completion for any arguments: it makes one        *)
(* position read per ID of the window, ascending, prints an `ID i POS p`   *)
(* line only for IDs whose read succeeded, and always ends with DONE as    *)
(* its last line, also when no device answered.                            *)
C18_ScanPosCompletes ==
    (Acted /\ req.cmd = "SCAN_POS") =>
    LET shown == SelectSeq(out, IsIdPos)
    IN  /\ Done
        /\ \A k \in 1..Len(calls) : calls[k].op = "ReadPos"
        /\ PingedIds = Ascending(scanLo, scanHi)
        /\ Len(out) = Len(shown) + 1
        /\ out[Len(out)] = L("DONE")
        /\ \A j \in 1..Len(shown) :
              \E k \in 1..Len(calls) :
                 /\ calls[k].ret # FAIL
                 /\ shown[j].n = <<calls[k].id, calls[k].ret>>

\* SET_SERVO or SET_WHEEL with one field, a valid ID
ModeSwitch(cmd) == Acted /\ req.cmd = cmd /\ nf = 1 /\ ValidId(val(1))

\* SET_WHEEL: one driver call, OK exactly when it did not return the sentinel
SetWheelOneCall ==
    ModeSwitch("SET_WHEEL") =>
    /\ Done
    /\ Len(calls) = 1
    /\ calls[1].op = "WheelMode"
    /\ calls[1].id = val(1)
    /\ out = <<L(IF calls[1].ret # FAIL THEN "OK" ELSE "ERROR")>>

(* C19 as stated: SET_SERVO with a valid ID writes the position-mode value *)
(* and then re-enables torque on the same device, the torque call coming   *)
(* after the mode write; SET_WHEEL makes exactly one driver call; both     *)
(* answer OK exactly when the mode-setting call did not return the failure *)
(* sentinel.                                                               *)
C19_ModeSwitchAsStated ==
    /\ SetWheelOneCall
    /\ ModeSwitch("SET_SERVO") =>
          /\ Done
          /\ Len(calls) = 2
          /\ calls[1].op = "writeByte:SMS_STS_MODE"
          /\ calls[1].id = val(1) /\ calls[1].a = <<0>>
          /\ calls[2].op = "EnableTorque"
          /\ calls[2].id = val(1) /\ calls[2].a = <<1>>
          /\ out = <<L(IF calls[1].ret # FAIL THEN "OK" ELSE "ERROR")>>

(* C19 amended: SET_SERVO with a valid ID writes the position-mode value   *)
(* and, when that write did not return the failure sentinel, then          *)
(* re-enables torque on the same device; when the write returned the       *)
(* sentinel it makes no further driver call.  SET_WHEEL makes exactly one  *)
(* driver call.  Both answer OK exactly when the mode-setting call did not *)
(* return the failure sentinel.                                            *)
C19_ModeSwitchTorqueOnSuccess ==
    /\ SetWheelOneCall
    /\ ModeSwitch("SET_SERVO") =>
          /\ Done
          /\ Len(calls) >= 1
          /\ calls[1].op = "writeByte:SMS_STS_MODE"
          /\ calls[1].id = val(1) /\ calls[1].a = <<0>>
          /\ IF calls[1].ret # FAIL
             THEN /\ Len(calls) = 2
                  /\ calls[2].op = "EnableTorque"
                  /\ calls[2].id = val(1) /\ calls[2].a = <<1>>
                  /\ out = <<L("OK")>>
             ELSE /\ Len(calls) = 1
                  /\ out = <<L("ERROR")>>

\* SET_SERVO 100 whose mode write failed made that one call; it was
\* answered ERROR
C19_Witness ==
    /\ Done
    /\ req.cmd = "SET_SERVO"
    /\ nf = 1 /\ val(1) = 100
    /\ Len(calls) = 1
    /\ calls[1].ret = FAIL
    /\ out = <<L("ERROR")>>

\* the text is a decimal number: an optional sign and one or more digits
IsNumber(t) ==
    LET b == IF t # <<>> /\ t[1] \in {"-", "+"} THEN Tail(t) ELSE t
    IN  b # <<>> /\ \A i \in 1..Len(b) : IsDigit(b[i])

\* the i-th field read as its number, and as 0 when it is not a number
numberOrZero(i) == IF IsNumber(req.words[i].txt) THEN val(i) ELSE 0

\* the i-th field read as the number it begins with, and as 0 when it
\* begins with none
leadingNumber(i) == val(i)

\* a line with the right number of fields is never answered with a usage
\* error: with F(i) the value its i-th field is taken as, it is validated
\* and makes its driver calls with these values
Permissive(F(_)) ==
    /\ (Acted /\ req.cmd = "MOVE" /\ nf = 4) =>
          /\ Done
          /\ IF ValidId(F(1))
             THEN /\ Len(calls) = 1
                  /\ calls[1].op = "WritePosEx"
                  /\ calls[1].id = F(1)
                  /\ calls[1].a = <<Sat(F(2), 0, 4095), Sat(F(3), 0, 4095),
                                    Sat(F(4), 0, 255)>>
                  /\ out = <<L("OK")>>
             ELSE calls = <<>> /\ OneError(ValidationErrors)
    /\ (Acted /\ req.cmd = "SPEED" /\ nf = 2) =>
          /\ Done
          /\ IF ValidId(F(1))
             THEN /\ Len(calls) = 2
                  /\ calls[2].op = "WriteSpe"
                  /\ calls[2].id = F(1)
                  /\ calls[2].a = <<Sat(F(2), SPEED_MIN, SPEED_MAX)>>
                  /\ Len(out) = 1 /\ out[1].t \notin UsageErrors
             ELSE calls = <<>> /\ OneError(ValidationErrors)
    /\ (Acted /\ req.cmd = "SET_ID" /\ nf = 2) =>
          /\ Done
          /\ IF ValidId(F(1)) /\ ValidId(F(2))
             THEN /\ Len(calls) = 3
                  /\ calls[2].id = F(1)
                  /\ calls[2].a = <<F(2)>>
                  /\ Len(out) = 1 /\ out[1].t \notin UsageErrors
             ELSE calls = <<>> /\ OneError(ValidationErrors)
    /\ (Acted /\ req.cmd \in SingleIdCmds /\ nf = 1) =>
          /\ Done
          /\ IF ValidId(F(1))
             THEN /\ Len(calls) >= 1
                  /\ calls[1].id = F(1)
                  /\ Len(out) = 1 /\ out[1].t \notin UsageErrors
             ELSE calls = <<>> /\ OneError(ValidationErrors)

(* C20 as stated: parsing is permissive: a field that is not a number is   *)
(* taken as 0 and is never an error by itself; a usage error is signalled  *)
(* only when a required blank is absent; so a line with the right number   *)
(* of fields always proceeds to validation and driver calls, with 0 for    *)
(* each field that is not a number (MOVE x x x x writes position 0, speed  *)
(* 0, acceleration 0 to device 0 and answers OK).                          *)
C20_PermissiveAsStated == Permissive(numberOrZero)

(* C20 amended: parsing is permissive: a field is taken as the number it   *)
(* begins with (12a as 12) and as 0 when it begins with none, and is never *)
(* an error by itself; a usage error is signalled only when a required     *)
(* blank is absent; so a line with the right number of fields always       *)
(* proceeds to validation and driver calls with these values.              *)
C20_PermissiveLeadingNumber == Permissive(leadingNumber)

\* MOVE 100 12a +7 x wrote position 12, speed 7 and acceleration 0 to
\* device 100 and was answered OK
C20_Witness ==
    /\ Done
    /\ req.cmd = "MOVE"
    /\ nf = 4
    /\ req.words[2].txt = <<"1", "2", "a">>
    /\ ~IsNumber(req.words[4].txt)
    /\ Len(calls) = 1
    /\ calls[1].id = 100
    /\ calls[1].a = <<12, 7, 0>>
    /\ out = <<L("OK")>>

(* C21: SCAN_POS and READ_POS agree on what a successful position read is: *)
(* for every ID of the scanned window and every value v the driver returns *)
(* for the read, SCAN_POS prints `ID i POS v` exactly when READ_POS of     *)
(* that ID under the same reply prints `POS v`, that is exactly when v is  *)
(* not the failure sentinel -1.                                            *)
C21_ScanReadAgree ==
    /\ (Done /\ req.cmd = "READ_POS" /\ Len(calls) = 1) =>
          out = <<IF calls[1].ret # FAIL THEN LN("POS", <<calls[1].ret>>)
                  ELSE L("ERROR: read pos fail")>>
    /\ (Acted /\ req.cmd = "SCAN_POS") =>
          \A k \in 1..Len(calls) :
             (\E j \in 1..Len(out) :
                 out[j] = LN("ID POS", <<calls[k].id, calls[k].ret>>))
             <=> calls[k].ret # FAIL

===========================================================================
